---- MODULE Spec2Model ----
(***************************************************************************)
(* A model of c_src/re2_nif.cpp: the NIF glue between the Erlang runtime   *)
(* and the RE2 engine.  Each NIF call (compile, match, replace) is one     *)
(* action that computes the whole handler; the engine's answers and the    *)
(* outcome of every allocation are inputs of the call.  ConcSpec runs      *)
(* match and replace calls on a handle side by side, each split where it   *)
(* reads the handle's pointer.                                             *)
(***************************************************************************)
EXTENDS Integers, Sequences, FiniteSets, TLC

VARIABLES handles, pc, call, result, obs, threads

vars == <<handles, pc, call, result, obs, threads>>

(* ----------------------------- bounds ---------------------------------- *)

\* longest subject, in bytes
MaxLen == 2
\* most capturing groups of a pattern
MaxGroups == 2
\* longest options list
MaxOpts == 2
\* longest {capture, ValueList} reference list
MaxRefs == 2
\* most calls in progress at once on one handle
MaxThreads == 2

(* --------------------------- Erlang terms ------------------------------ *)

\* Every term carries the same fields: k the kind, a an atom's name, n an
\* integer's value (or a resource's handle number), e the elements of a
\* tuple or list, b the bytes of a binary.
Term(k, a, n, e, b) == [k |-> k, a |-> a, n |-> n, e |-> e, b |-> b]
Atom(a) == Term("atom", a, 0, <<>>, <<>>)
\* an integer that fits the 32 bits of a C int
Num(n) == Term("int", "", n, <<>>, <<>>)
\* an integer that does not
BigNum == Term("bignum", "", 0, <<>>, <<>>)
Tuple(e) == Term("tuple", "", 0, e, <<>>)
List(e) == Term("list", "", 0, e, <<>>)
Bin(b) == Term("bin", "", 0, <<>>, b)
Resource(h) == Term("resource", "", h, <<>>, <<>>)
\* enif_make_badarg raises an exception instead of returning a term
Badarg == Term("badarg", "", 0, <<>>, <<>>)
\* a write through a null pointer ends the emulator
Crash == Term("crash", "", 0, <<>>, <<>>)
\* no term at all: the result before any call
NoTerm == Term("none", "", 0, <<>>, <<>>)

a_ok == Atom("ok")
a_error == Atom("error")
a_match == Atom("match")
a_nomatch == Atom("nomatch")
a_capture == Atom("capture")
a_global == Atom("global")
a_offset == Atom("offset")
a_all == Atom("all")
a_all_but_first == Atom("all_but_first")
a_first == Atom("first")
a_none == Atom("none")
a_index == Atom("index")
a_binary == Atom("binary")
a_caseless == Atom("caseless")
a_max_mem == Atom("max_mem")
a_err_enif_alloc_binary == Atom("enif_alloc_binary")
a_err_enif_alloc_resource == Atom("enif_alloc_resource")
a_err_enif_alloc == Atom("enif_alloc")
a_err_enif_get_atom == Atom("enif_get_atom")
a_err_enif_get_string == Atom("enif_get_string")

error(err) == Tuple(<<a_error, err>>)

(* ------------------------- erl_nif primitives -------------------------- *)

enif_is_identical(t, u) == t = u
enif_is_atom(t) == t.k = "atom"
enif_is_empty_list(t) == t.k = "list" /\ t.e = <<>>
\* an int is 32 bits wide: a larger integer term is not converted
enif_get_int(t) == t.k = "int"
enif_get_tuple(t) == t.k = "tuple"
\* the cells enif_get_list_cell walks: none when the term is no list
list_cells(t) == IF t.k = "list" THEN t.e ELSE <<>>
enif_get_list_length(t) == t.k = "list"
IsByte(t) == t.k = "int" /\ t.n >= 0 /\ t.n <= 255
IsString(t) == t.k = "list" /\ \A i \in 1..Len(t.e) : IsByte(t.e[i])
\* binaries and flat byte lists are the iolists of the model
enif_inspect_iolist_as_binary(t) == t.k = "bin" \/ IsString(t)
iolist_bytes(t) == IF t.k = "bin" THEN t.b ELSE [i \in 1..Len(t.e) |-> t.e[i].n]

\* the Latin-1 text of an atom; the atom 'uni' has characters beyond Latin-1
\* and enif_get_atom_length(..., ERL_NIF_LATIN1) fails on it
atom_latin1(t) == t.k = "atom" /\ t.a /= "uni"
atom_text(t) == CASE t.a = "n" -> <<1>>
                  [] t.a = "zz" -> <<2, 2>>
                  [] OTHER -> <<3>>

\* a C string ends at its first NUL byte
RECURSIVE c_str(_)
c_str(bytes) == IF bytes = <<>> \/ Head(bytes) = 0 THEN <<>>
                ELSE <<Head(bytes)>> \o c_str(Tail(bytes))

(* ----------------------------- the engine ------------------------------ *)

\* A pattern's text is two bytes <<G, k>>: G capturing groups, of which
\* group k (0: none) is named "n" (the byte string <<1>>).  Any other text
\* is a pattern with a missing parenthesis.
PatternText(G, k) == <<G, k>>
BadPatternText == <<9>>
ValidPatternTexts == UNION {{PatternText(G, k) : k \in 0..G} : G \in 0..MaxGroups}

\* re2::RE2::Options as the NIF sets them
DefaultRe2Opts == [case_sensitive |-> TRUE, max_mem |-> 8388608, log_errors |-> TRUE]

\* The RE2 object: its pattern, the case sensitivity it was compiled with,
\* and its error code.  A positive memory budget too small for any program
\* fails the compilation.
RE2(p, re2opts) ==
    [src |-> p,
     case_sensitive |-> re2opts.case_sensitive,
     code |-> IF p \notin ValidPatternTexts THEN "ErrorMissingParen"
              ELSE IF re2opts.max_mem > 0 /\ re2opts.max_mem < 16
                   THEN "ErrorPatternTooLarge"
                   ELSE "NoError"]
\* nullptr
NoRe == [src |-> <<>>, case_sensitive |-> TRUE, code |-> "null"]

re_ok(re) == re.code = "NoError"
NumberOfCapturingGroups(re) == IF re_ok(re) THEN re.src[1] ELSE -1
\* name -> group index, as a set of pairs
NamedCapturingGroups(re) ==
    IF re_ok(re) /\ re.src[2] > 0 THEN {<<(<<1>>), re.src[2]>>} ELSE {}
nmap_has(nmap, name) == \E p \in nmap : p[1] = name
nmap_at(nmap, name) == (CHOOSE p \in nmap : p[1] = name)[2]

(* ---------------------------- re2:compile ------------------------------ *)

\* one entry of the compile options: [ok, opts]
compile_option(H, opts) ==
    IF enif_is_identical(H, a_caseless)
    THEN [ok |-> TRUE, opts |-> [opts EXCEPT !.case_sensitive = FALSE]]
    ELSE IF enif_get_tuple(H)
    THEN IF Len(H.e) = 2 /\ enif_is_identical(H.e[1], a_max_mem)
         THEN IF enif_get_int(H.e[2])
              THEN [ok |-> TRUE, opts |-> [opts EXCEPT !.max_mem = H.e[2].n]]
              ELSE [ok |-> FALSE, opts |-> opts]
         ELSE [ok |-> TRUE, opts |-> opts]
    ELSE [ok |-> FALSE, opts |-> opts]

RECURSIVE compile_options_loop(_, _)
compile_options_loop(cells, opts) ==
    IF cells = <<>> THEN [ok |-> TRUE, opts |-> opts]
    ELSE LET next(r) == IF r.ok THEN compile_options_loop(Tail(cells), r.opts)
                        ELSE r
         IN next(compile_option(Head(cells), opts))

parse_compile_options(list, opts) == compile_options_loop(list_cells(list), opts)

(* ----------------------------- re2:match ------------------------------- *)

\* matchoptions(env): the defaults
matchoptions == [caseless |-> FALSE, offset |-> 0, vs |-> "VS_ALL",
                 ct |-> "CT_BINARY", vlist |-> List(<<>>)]

parse_match_capture_options(opts, tuple) ==
    LET vs_atom == enif_is_atom(tuple[2])
        vs_list == ~enif_is_atom(tuple[2]) /\ ~enif_is_empty_list(tuple[2])
        \* the value-spec is parsed into o1; the type, if there is one, after it
        capture_type(vs_set, o1) ==
            IF Len(tuple) = 3 /\ vs_set
            THEN [o1 EXCEPT !.ct =
                    IF enif_is_identical(tuple[3], a_index) THEN "CT_INDEX"
                    ELSE IF enif_is_identical(tuple[3], a_binary) THEN "CT_BINARY"
                    ELSE o1.ct]
            ELSE o1
    IN capture_type(
         vs_atom \/ vs_list,
         IF vs_atom
         THEN [opts EXCEPT !.vs =
                 IF enif_is_identical(tuple[2], a_all) THEN "VS_ALL"
                 ELSE IF enif_is_identical(tuple[2], a_all_but_first)
                      THEN "VS_ALL_BUT_FIRST"
                 ELSE IF enif_is_identical(tuple[2], a_first) THEN "VS_FIRST"
                 ELSE IF enif_is_identical(tuple[2], a_none) THEN "VS_NONE"
                 ELSE opts.vs]
         ELSE IF vs_list
         THEN [opts EXCEPT !.vlist = tuple[2], !.vs = "VS_VLIST"]
         ELSE opts)

\* one entry of the match options: [ok, opts]
match_option(H, opts) ==
    IF enif_is_identical(H, a_caseless)
    THEN [ok |-> TRUE, opts |-> [opts EXCEPT !.caseless = TRUE]]
    ELSE IF enif_get_tuple(H)
    THEN IF Len(H.e) = 2 \/ Len(H.e) = 3
         THEN IF enif_is_identical(H.e[1], a_offset)
              THEN IF enif_get_int(H.e[2])
                   THEN [ok |-> TRUE, opts |-> [opts EXCEPT !.offset = H.e[2].n]]
                   ELSE [ok |-> FALSE, opts |-> opts]
              ELSE IF enif_is_identical(H.e[1], a_capture)
                   THEN [ok |-> TRUE, opts |-> parse_match_capture_options(opts, H.e)]
                   ELSE [ok |-> TRUE, opts |-> opts]
         ELSE [ok |-> TRUE, opts |-> opts]
    ELSE [ok |-> FALSE, opts |-> opts]

RECURSIVE match_options_loop(_, _)
match_options_loop(cells, opts) ==
    IF cells = <<>> THEN [ok |-> TRUE, opts |-> opts]
    ELSE LET next(r) == IF r.ok THEN match_options_loop(Tail(cells), r.opts)
                        ELSE r
         IN next(match_option(Head(cells), opts))

parse_match_options(list, opts) == match_options_loop(list_cells(list), opts)

\* A re2::StringPiece into the subject: data is the distance of its first
\* byte from the subject's first byte, -1 for the null piece.
Piece(data, size) == [data |-> data, size |-> size]
empty == Piece(-1, 0)
piece_bytes(str, match) ==
    IF match.size = 0 THEN <<>>
    ELSE SubSeq(str, match.data + 1, match.data + match.size)

\* a fault to test C7 against: the placeholder for the null piece only, not
\* for every empty piece
mres_null_test(str, match, ct, allocated) ==
    IF ct = "CT_BINARY"
    THEN IF ~allocated THEN a_err_enif_alloc_binary
         ELSE Bin(piece_bytes(str, match))
    ELSE IF match.data = -1
         THEN Tuple(<<Num(-1), Num(0)>>)
         ELSE Tuple(<<Num(match.data), Num(match.size)>>)
\* a fault to test C16 against: the offset of a pair counted from one
mres_one_based(str, match, ct, allocated) ==
    IF ct = "CT_BINARY"
    THEN IF ~allocated THEN a_err_enif_alloc_binary
         ELSE Bin(piece_bytes(str, match))
    ELSE IF match.size = 0
         THEN Tuple(<<Num(-1), Num(0)>>)
         ELSE Tuple(<<Num(match.data + 1), Num(match.size)>>)
\* build result for re2:match; allocated is the outcome of enif_alloc_binary
mres(str, match, ct, allocated) ==
    IF ct = "CT_BINARY"
    THEN IF ~allocated THEN a_err_enif_alloc_binary
         ELSE Bin(piece_bytes(str, match))
    ELSE IF match.size = 0
         THEN Tuple(<<Num(-1), Num(0)>>)
         ELSE Tuple(<<Num(match.data), Num(match.size)>>)

\* the allocations mres makes: one binary in CT_BINARY, none in CT_INDEX
mres_allocs(ct) == IF ct = "CT_BINARY" THEN 1 ELSE 0

\* The state of a running call: ret its return value (NoTerm while it runs),
\* na the allocations made so far, reads the capture slots read so far.
Run(ret, na, reads) == [ret |-> ret, na |-> na, reads |-> reads]

\* the k-th allocation of a call succeeds unless the call's input says it fails
alloc_succeeds(k, fail) == k \notin fail

\* One ValueID of the ValueList: [ret, val, na, reads], ret = NoTerm when
\* val was pushed to vec.
vlist_item(VH, nmap, s, ct, group, n, na, fail, reads) ==
    LET \* res is what mres built after k allocations, rd the slots read:
        \* the check of res, then the push
        checked(res, k, rd) ==
            IF enif_is_identical(res, a_err_enif_alloc_binary)
            THEN [ret |-> error(a_err_enif_alloc_binary), val |-> NoTerm,
                  na |-> na + k, reads |-> rd]
            ELSE [ret |-> NoTerm, val |-> res, na |-> na + k, reads |-> rd]
        \* the buffer of the name was allocation na + 1
        named(name) ==
            IF nmap_has(nmap, name)
            THEN checked(mres(s, group[nmap_at(nmap, name) + 1], ct,
                              alloc_succeeds(na + 2, fail)),
                         1 + mres_allocs(ct), reads \cup {nmap_at(nmap, name)})
            ELSE checked(mres(s, empty, ct, alloc_succeeds(na + 2, fail)),
                         1 + mres_allocs(ct), reads)
        stop(err, k) == [ret |-> error(err), val |-> NoTerm, na |-> na + k,
                         reads |-> reads]
    IN IF enif_get_int(VH) /\ VH.n > 0
       THEN IF VH.n < n
            THEN checked(IF group[VH.n + 1].size /= 0
                         THEN mres(s, group[VH.n + 1], ct, alloc_succeeds(na + 1, fail))
                         ELSE mres(s, empty, ct, alloc_succeeds(na + 1, fail)),
                         mres_allocs(ct), reads \cup {VH.n})
            ELSE [ret |-> NoTerm,
                  val |-> mres(s, empty, ct, alloc_succeeds(na + 1, fail)),
                  na |-> na + mres_allocs(ct), reads |-> reads]
       ELSE IF enif_is_atom(VH)
       THEN IF ~atom_latin1(VH) THEN stop(a_err_enif_alloc, 0)
            ELSE IF ~alloc_succeeds(na + 1, fail) THEN stop(a_err_enif_alloc, 1)
            ELSE named(c_str(atom_text(VH)))
       ELSE IF ~enif_get_list_length(VH) THEN stop(a_err_enif_alloc, 0)
            ELSE IF ~alloc_succeeds(na + 1, fail) THEN stop(a_err_enif_alloc, 1)
            ELSE IF IsString(VH) THEN named(c_str(iolist_bytes(VH)))
            ELSE stop(a_err_enif_get_string, 1)

\* a fault to test C8 against: the value goes to the front
push_front(vec, res) == <<res>> \o vec
\* vec.push_back(res)
push_back(vec, res) == Append(vec, res)

RECURSIVE vlist_loop(_, _, _, _, _, _, _, _, _, _)
vlist_loop(cells, vec, nmap, s, ct, group, n, na, fail, reads) ==
    IF cells = <<>>
    THEN Run(Tuple(<<a_match, List(vec)>>), na, reads)
    ELSE LET next(it) ==
                 IF it.ret /= NoTerm THEN Run(it.ret, it.na, it.reads)
                 ELSE vlist_loop(Tail(cells), push_back(vec, it.val), nmap, s, ct,
                                 group, n, it.na, fail, it.reads)
         IN next(vlist_item(Head(cells), nmap, s, ct, group, n, na, fail, reads))

re2_match_ret_vlist(re, s, opts, group, n, na, fail) ==
    vlist_loop(list_cells(opts.vlist), <<>>, NamedCapturingGroups(re), s,
               opts.ct, group, n, na, fail, {})

\* a fault to test C5 against: first asks for every group
number_of_capturing_groups_no_first(nr_groups, vs) ==
    IF vs = "VS_NONE" THEN 0 ELSE nr_groups
\* which groups to ask the engine for
number_of_capturing_groups(nr_groups, vs) ==
    IF vs = "VS_NONE" THEN 0
    ELSE IF vs = "VS_FIRST" THEN 1
    ELSE nr_groups

\* What RE2::Match answers: whether the pattern matched and, if it did, the
\* pieces of the whole match and of the groups 1..G.  The engine fills the
\* first n of them.
NoMatch == [matched |-> FALSE, slots |-> <<>>]
\* what group i can be inside the whole match w: absent (the null piece),
\* empty at the start of w, one byte of w, or all of w
GroupPieces(w, i) ==
    {empty, Piece(w.data, 0)} \cup
    IF w.size = 0 THEN {}
    ELSE {w, Piece(w.data + (IF i <= w.size THEN i ELSE w.size) - 1, 1)}
WholePieces(s, startpos) ==
    UNION {{Piece(p, l) : l \in 0..(Len(s) - p)} : p \in startpos..Len(s)}
Answer(w, gs) == [matched |-> TRUE, slots |-> <<w>> \o gs]
EngineAnswers(re, s, startpos) ==
    IF startpos < 0 \/ startpos > Len(s) THEN {NoMatch}
    ELSE {NoMatch} \cup
         UNION {{Answer(w, gs) :
                   gs \in {g \in [1..NumberOfCapturingGroups(re) -> GroupPieces(w, 1)
                                    \cup GroupPieces(w, MaxGroups + 1)] :
                             \A i \in DOMAIN g : g[i] \in GroupPieces(w, i)}} :
                w \in WholePieces(s, startpos)}
\* two answers over the rest of the subject: every group one byte further
\* than the one before; odd groups absent and even groups empty
PinnedAnswers(re, s, startpos) ==
    IF startpos < 0 \/ startpos > Len(s) THEN {NoMatch}
    ELSE LET w == Piece(startpos, Len(s) - startpos)
             G == NumberOfCapturingGroups(re)
         IN {Answer(w, [i \in 1..G |-> IF i <= w.size THEN Piece(startpos + i - 1, 1)
                                       ELSE empty]),
             Answer(w, [i \in 1..G |-> IF i % 2 = 1 THEN empty
                                       ELSE Piece(startpos, 0)])}
FewAnswers(re, s, startpos) ==
    {NoMatch} \cup {a \in PinnedAnswers(re, s, startpos) :
                      \A i \in 2..Len(a.slots) : i % 2 = 1 \/ a.slots[i] /= empty}

\* startpos and endpos are unsigned: a negative offset is a huge startpos,
\* and the engine refuses startpos > endpos.  The engine fills n slots, the
\* ones beyond the pattern's groups with the null piece.  group is the
\* storage that group.reserve(n) set aside: the engine writes it through
\* group.data() and the NIF reads it back with group[i].
RE2_Match(s, startpos, endpos, n, answer) ==
    IF startpos < 0 \/ startpos > endpos \/ ~answer.matched
    THEN [matched |-> FALSE, group |-> <<>>]
    ELSE [matched |-> TRUE,
          group |-> [i \in 1..n |-> IF i <= Len(answer.slots) THEN answer.slots[i]
                                    ELSE empty]]

\* all or all_but_first: shape group[i..n-1] into arr
RECURSIVE all_loop(_, _, _, _, _, _, _, _, _, _)
all_loop(s, group, ct, i, n, arr_ok, arr, na, fail, reads) ==
    IF i >= n THEN [ret |-> NoTerm, arr |-> arr, na |-> na, reads |-> reads]
    ELSE LET next(res, na1, rd) ==
                 IF enif_is_identical(res, a_err_enif_alloc_binary)
                 THEN [ret |-> error(a_err_enif_alloc_binary), arr |-> arr,
                       na |-> na1, reads |-> rd]
                 ELSE IF ~arr_ok
                 THEN [ret |-> Crash, arr |-> arr, na |-> na1, reads |-> rd]
                 ELSE all_loop(s, group, ct, i + 1, n, arr_ok, Append(arr, res),
                               na1, fail, rd)
         IN next(mres(s, group[i + 1], ct, alloc_succeeds(na + 1, fail)),
                 na + mres_allocs(ct), reads \cup {i})

\* The observations of one call: the RE2 object it used, how many it
\* constructed and destroyed, the engine function it called ("none" if it
\* did not reach the engine), the number of slots it requested, the slots it
\* read, the allocations it made.
Obs(re, ctor, dtor, engine, n, reads, allocs) ==
    [re |-> re, ctor |-> ctor, dtor |-> dtor, engine |-> engine, n |-> n,
     reads |-> reads, allocs |-> allocs]
NoObs == Obs(NoRe, 0, 0, "none", -1, {}, 0)
Ret(ret, o) == [ret |-> ret, obs |-> o]

\* a fault to test C11 against: the object is destroyed and freed but the
\* pointer is left as it was
cleanup_obj_ptr_dangling(ptr) ==
    [ptr |-> ptr, dtor |-> IF ptr /= NoRe THEN 1 ELSE 0]
\* cleanup_obj_ptr(T*& ptr): a non-null object is destroyed and freed and the
\* pointer is set to null.  [ptr, dtor]: the pointer afterwards and the number
\* of destructor runs.
cleanup_obj_ptr(ptr) ==
    [ptr |-> NoRe, dtor |-> IF ptr /= NoRe THEN 1 ELSE 0]
cleanup_handle(handle_re) == cleanup_obj_ptr(handle_re)
\* the resource destructor, run by the runtime when the last reference to
\* the resource goes
re2_resource_cleanup(handle_re) == cleanup_handle(handle_re)
\* cleanup_handle followed by enif_release_resource on a resource no term
\* refers to: the release drops the only reference, so the destructor runs
\* on the handle as cleanup_handle left it
cleanup_and_release(handle_re) ==
    LET released(c) == [ptr |-> re2_resource_cleanup(c.ptr).ptr,
                        dtor |-> c.dtor + re2_resource_cleanup(c.ptr).dtor]
    IN released(cleanup_handle(handle_re))
\* Re2UniquePtr at the end of its scope: EnifDeleter runs on the object the
\* pointer owns (own = 1), and on nothing when it was never reset
Re2UniquePtr_exit(own, re) == IF own = 1 THEN cleanup_obj_ptr(re).dtor ELSE 0

\* a fault to test C6 against: all_but_first does not skip
first_slot_zero(vs) == 0
\* the first slot of the result: all_but_first skips the whole match
first_slot(vs) == IF vs = "VS_ALL_BUT_FIRST" THEN 1 ELSE 0

\* a fault to test C9 against: none is shaped like all
match_shape_no_none(s, re, opts, group, n, na0, fail) ==
    IF opts.vs = "VS_VLIST"
    THEN re2_match_ret_vlist(re, s, opts, group, n, na0, fail)
    ELSE LET ret(r) ==
                 IF r.ret /= NoTerm THEN Run(r.ret, r.na, r.reads)
                 ELSE Run(Tuple(<<a_match, List(r.arr)>>), r.na, r.reads)
         IN ret(all_loop(s, group, opts.ct, first_slot(opts.vs), n,
                         alloc_succeeds(na0 + 1, fail), <<>>, na0 + 1, fail, {}))
\* the result of a call whose pattern matched, by value-spec
match_shape(s, re, opts, group, n, na0, fail) ==
    IF opts.vs = "VS_NONE" THEN Run(a_match, na0, {})
    ELSE IF opts.vs = "VS_FIRST"
    THEN LET ret(first, na) ==
                 IF enif_is_identical(first, a_err_enif_alloc_binary)
                 THEN Run(error(a_err_enif_alloc_binary), na, {0})
                 ELSE Run(Tuple(<<a_match, List(<<first>>)>>), na, {0})
         IN ret(mres(s, group[1], opts.ct, alloc_succeeds(na0 + 1, fail)),
                na0 + mres_allocs(opts.ct))
    ELSE IF opts.vs = "VS_VLIST"
    THEN re2_match_ret_vlist(re, s, opts, group, n, na0, fail)
    ELSE LET ret(r) ==
                 IF r.ret /= NoTerm THEN Run(r.ret, r.na, r.reads)
                 ELSE Run(Tuple(<<a_match, List(r.arr)>>), r.na, r.reads)
         IN ret(all_loop(s, group, opts.ct, first_slot(opts.vs), n,
                         alloc_succeeds(na0 + 1, fail), <<>>, na0 + 1, fail, {}))

\* the part of re2_match_impl after the pattern is resolved; own = 1 when
\* the RE2 object is the call's own (held by re_unique_ptr)
match_run(s, re, own, opts, answer, na0, fail) ==
    IF ~re_ok(re)
    THEN Ret(Badarg, Obs(re, own, Re2UniquePtr_exit(own, re), "none", -1, {}, na0))
    ELSE
    LET ret(n, r) == Ret(r.ret, Obs(re, own, Re2UniquePtr_exit(own, re), "Match", n, r.reads, r.na))
        matched(n, m) ==
            IF ~m.matched THEN Ret(a_nomatch, Obs(re, own, Re2UniquePtr_exit(own, re), "Match", n, {}, na0))
            ELSE ret(n, match_shape(s, re, opts, m.group, n, na0, fail))
        match(n) == matched(n, RE2_Match(s, opts.offset, Len(s), n, answer))
        nr_groups == NumberOfCapturingGroups(re) + 1
    IN match(number_of_capturing_groups(nr_groups, opts.vs))

\* a fault to test C1 against: the handle branch without its caseless check
handle_caseless_unchecked(opts) == FALSE
\* caseless allowed either in compile or match
handle_caseless(opts) == opts.caseless

\* argv = <<subject, pattern or handle>> or <<subject, pattern or handle,
\* options>>; hs the resources; answer what the engine answers if asked;
\* fail the allocations that fail
re2_match_impl(argv, hs, answer, fail) ==
    IF ~enif_inspect_iolist_as_binary(argv[1]) THEN Ret(Badarg, NoObs)
    ELSE
    LET s == iolist_bytes(argv[1])
        \* the call once its options are parsed
        with(parsed, opts) ==
            IF ~parsed.ok THEN Ret(Badarg, NoObs)
            ELSE IF argv[2].k = "resource" /\ hs[argv[2].n].re /= NoRe
            THEN IF handle_caseless(opts)
                 THEN Ret(Badarg, Obs(hs[argv[2].n].re, 0, 0, "none", -1, {}, 0))
                 ELSE match_run(s, hs[argv[2].n].re, 0, opts, answer, 0, fail)
            ELSE IF enif_inspect_iolist_as_binary(argv[2])
            THEN IF ~alloc_succeeds(1, fail)
                 THEN Ret(error(a_err_enif_alloc),
                          Obs(NoRe, 0, 0, "none", -1, {}, 1))
                 ELSE match_run(s,
                                RE2(iolist_bytes(argv[2]),
                                    [DefaultRe2Opts EXCEPT
                                       !.log_errors = FALSE,
                                       !.case_sensitive = ~opts.caseless]),
                                1, opts, answer, 1, fail)
            ELSE Ret(Badarg, NoObs)
        parse(parsed) == with(parsed, parsed.opts)
    IN parse(IF Len(argv) = 3 THEN parse_match_options(argv[3], matchoptions)
             ELSE [ok |-> TRUE, opts |-> matchoptions])

(* ---------------------------- re2:replace ------------------------------ *)

replaceoptions == [global |-> FALSE]

\* a fault to test C10 against: global is accepted and forgotten
replace_options_loop_no_global(cells, opts) ==
    [ok |-> \A i \in 1..Len(cells) : enif_is_identical(cells[i], a_global),
     opts |-> opts]
RECURSIVE replace_options_loop(_, _)
replace_options_loop(cells, opts) ==
    IF cells = <<>> THEN [ok |-> TRUE, opts |-> opts]
    ELSE IF enif_is_identical(Head(cells), a_global)
         THEN replace_options_loop(Tail(cells), [opts EXCEPT !.global = TRUE])
         ELSE [ok |-> FALSE, opts |-> opts]

parse_replace_options(list, opts) == replace_options_loop(list_cells(list), opts)

\* build result for re2:replace
rres(s, allocated) ==
    IF ~allocated THEN error(a_err_enif_alloc_binary) ELSE Bin(s)

\* The engine's substitution.  occ is what the engine finds in the subject:
\* the positions of the one-byte occurrences of the pattern.
RECURSIVE Substitute(_, _, _, _)
Substitute(s, i, occ, r) ==
    IF i > Len(s) THEN <<>>
    ELSE (IF i \in occ THEN r ELSE <<s[i]>>) \o Substitute(s, i + 1, occ, r)
Min(S) == CHOOSE x \in S : \A y \in S : x <= y
\* RE2::Replace: the first occurrence; whether one was replaced
RE2_Replace(s, occ, r) ==
    IF occ = {} THEN [n |-> 0, s |-> s]
    ELSE [n |-> 1, s |-> Substitute(s, 1, {Min(occ)}, r)]
\* RE2::GlobalReplace: every occurrence; how many were replaced
RE2_GlobalReplace(s, occ, r) ==
    [n |-> Cardinality(occ), s |-> Substitute(s, 1, occ, r)]

replace_run(s, r, re, own, argv, occ, na0, fail) ==
    IF ~re_ok(re) THEN Ret(Badarg, Obs(re, own, Re2UniquePtr_exit(own, re), "none", -1, {}, na0))
    ELSE
    LET \* out is what the engine function fn did to a copy of the subject
        replaced(out, fn) ==
            IF out.n /= 0
            THEN Ret(rres(out.s, alloc_succeeds(na0 + 1, fail)),
                     Obs(re, own, Re2UniquePtr_exit(own, re), fn, -1, {}, na0 + 1))
            ELSE Ret(a_error, Obs(re, own, Re2UniquePtr_exit(own, re), fn, -1, {}, na0))
        with(parsed) ==
            IF ~parsed.ok THEN Ret(Badarg, Obs(re, own, Re2UniquePtr_exit(own, re), "none", -1, {}, na0))
            ELSE IF parsed.opts.global
            THEN replaced(RE2_GlobalReplace(s, occ, r), "GlobalReplace")
            ELSE replaced(RE2_Replace(s, occ, r), "Replace")
    IN with(IF Len(argv) = 4 THEN parse_replace_options(argv[4], replaceoptions)
            ELSE [ok |-> TRUE, opts |-> replaceoptions])

\* argv = <<subject, pattern or handle, replacement>>, or with options
re2_replace_impl(argv, hs, occ, fail) ==
    IF ~(enif_inspect_iolist_as_binary(argv[1])
         /\ enif_inspect_iolist_as_binary(argv[3]))
    THEN Ret(Badarg, NoObs)
    ELSE
    LET s == iolist_bytes(argv[1])
        r == iolist_bytes(argv[3])
    IN IF argv[2].k = "resource" /\ hs[argv[2].n].re /= NoRe
       THEN replace_run(s, r, hs[argv[2].n].re, 0, argv, occ, 0, fail)
       ELSE IF enif_inspect_iolist_as_binary(argv[2])
       THEN IF ~alloc_succeeds(1, fail)
            THEN Ret(error(a_err_enif_alloc), Obs(NoRe, 0, 0, "none", -1, {}, 1))
            ELSE replace_run(s, r,
                             RE2(iolist_bytes(argv[2]),
                                 [DefaultRe2Opts EXCEPT !.log_errors = FALSE]),
                             1, argv, occ, 1, fail)
       ELSE Ret(Badarg, NoObs)

(* ------------------------- re2:compile, the call ------------------------ *)

\* the engine's message and offending fragment, as bytes
re_error(re) == IF re.code = "ErrorMissingParen" THEN <<4>> \o re.src
                ELSE IF re.code = "ErrorPatternTooLarge" THEN <<5>>
                ELSE <<>>
re_error_arg(re) == IF re.code = "ErrorMissingParen" THEN re.src ELSE <<>>
enif_make_string(bytes) == List([i \in 1..Len(bytes) |-> Num(bytes[i])])

\* convert RE2 error code to error term
re2error(re) ==
    LET code == CASE re.code = "ErrorInternal" -> Atom("internal")
                  [] re.code = "ErrorBadEscape" -> Atom("bad_escape")
                  [] re.code = "ErrorBadCharClass" -> Atom("bad_char_class")
                  [] re.code = "ErrorBadCharRange" -> Atom("bad_char_range")
                  [] re.code = "ErrorMissingBracket" -> Atom("missing_bracket")
                  [] re.code = "ErrorMissingParen" -> Atom("missing_paren")
                  [] re.code = "ErrorTrailingBackslash" -> Atom("trailing_backslash")
                  [] re.code = "ErrorRepeatArgument" -> Atom("repeat_argument")
                  [] re.code = "ErrorRepeatSize" -> Atom("repeat_size")
                  [] re.code = "ErrorRepeatOp" -> Atom("repeat_op")
                  [] re.code = "ErrorBadPerlOp" -> Atom("bad_perl_op")
                  [] re.code = "ErrorBadUTF8" -> Atom("bad_utf8")
                  [] re.code = "ErrorBadNamedCapture" -> Atom("bad_named_capture")
                  [] re.code = "ErrorPatternTooLarge" -> Atom("pattern_too_large")
                  [] OTHER -> Atom("no_error")
    IN Tuple(<<a_error, Tuple(<<code, enif_make_string(re_error(re)),
                                enif_make_string(re_error_arg(re))>>)>>)

\* struct re2_handle: whether the resource exists, and its RE2 object
Handle(live, re) == [live |-> live, re |-> re]
NoHandle == Handle(FALSE, NoRe)

\* argv = <<pattern>> or <<pattern, options>>; h the resource that
\* enif_alloc_resource returns.  [ret, obs, handle]: handle is the resource
\* as the call leaves it.
re2_compile_impl(argv, h, fail) ==
    LET out(ret, o, handle) == [ret |-> ret, obs |-> o, handle |-> handle]
        \* a path that gives the resource up: c is what cleanup_handle and
        \* the release did to handle->re, which held re
        dropped(ret, re, ctor, c, na) ==
            out(ret, Obs(re, ctor, c.dtor, "none", -1, {}, na),
                Handle(FALSE, c.ptr))
        compiled(re) ==
            IF ~re_ok(re)
            THEN dropped(re2error(re), re, 1, cleanup_and_release(re), 2)
            ELSE out(Tuple(<<a_ok, Resource(h)>>), Obs(re, 1, 0, "none", -1, {}, 2),
                     Handle(TRUE, re))
        with(parsed) ==
            IF ~parsed.ok
            THEN dropped(Badarg, NoRe, 0, cleanup_and_release(NoRe), 1)
            ELSE IF ~alloc_succeeds(2, fail)
            THEN dropped(error(a_err_enif_alloc), NoRe, 0,
                         cleanup_and_release(NoRe), 2)
            ELSE compiled(RE2(iolist_bytes(argv[1]), parsed.opts))
    IN IF ~enif_inspect_iolist_as_binary(argv[1]) THEN out(Badarg, NoObs, NoHandle)
       ELSE IF ~alloc_succeeds(1, fail)
       THEN out(error(a_err_enif_alloc_resource),
                Obs(NoRe, 0, 0, "none", -1, {}, 1), NoHandle)
       ELSE with(IF Len(argv) = 2
                 THEN parse_compile_options(argv[2],
                                            [DefaultRe2Opts EXCEPT !.log_errors = FALSE])
                 ELSE [ok |-> TRUE,
                       opts |-> [DefaultRe2Opts EXCEPT !.log_errors = FALSE]])

(* ------------------------------ the inputs ----------------------------- *)

HandleIds == {1}

SeqsUpTo(S, n) == UNION {[1..k -> S] : k \in 0..n}
\* the sequences over Core up to length n, and every Odd element alone,
\* before and after a Core element
SeqsWithOdd(Core, Odd, n) ==
    SeqsUpTo(Core, n) \cup {<<o>> : o \in Odd}
    \cup {<<o, c>> : o \in Odd, c \in Core} \cup {<<c, o>> : o \in Odd, c \in Core}

\* the subject of length L is the bytes 1..L, so that equal copies come from
\* equal places
Subject(L) == Bin([i \in 1..L |-> i])
Subjects == {Subject(L) : L \in 0..MaxLen}
NotIolist == Atom("foo")
FullPattern == Bin(PatternText(MaxGroups, MaxGroups))
PatternTerms == {Bin(p) : p \in ValidPatternTexts \cup {BadPatternText}}

CompileEntries ==
    {a_caseless, Tuple(<<a_max_mem, Num(1)>>), Tuple(<<a_max_mem, Num(64)>>)}
OddCompileEntries ==
    {Atom("foo"), Num(5), Tuple(<<a_max_mem, a_caseless>>), Tuple(<<a_max_mem>>),
     Tuple(<<a_max_mem, Num(1), Num(2)>>), Tuple(<<Atom("foo"), Num(1)>>)}
CompileOptLists ==
    {List(e) : e \in SeqsWithOdd(CompileEntries, OddCompileEntries, MaxOpts)}
    \cup {Atom("foo")}

\* the references of a ValueList: group numbers and the name "n", as an atom
\* and as a string
Refs == {Num(1), Num(2), Atom("n"), List(<<Num(1)>>)}
\* numbers out of range, names of no group, and terms that are neither
OddRefs ==
    {Num(0), Num(-1), Num(MaxGroups + 1), BigNum, Atom("zz"), Atom("uni"),
     List(<<Num(2), Num(2)>>), List(<<>>), List(<<Atom("n")>>), Tuple(<<>>)}
RefLists == {List(e) : e \in SeqsWithOdd(Refs, OddRefs, MaxRefs) \ {<<>>}}

MatchEntries ==
    {a_caseless, Tuple(<<a_offset, Num(1)>>), Tuple(<<a_capture, a_none>>),
     Tuple(<<a_capture, a_first, a_index>>), Tuple(<<a_capture, a_all_but_first>>),
     Tuple(<<a_capture, List(<<Num(1)>>), a_binary>>)}
OddMatchEntries ==
    {Atom("foo"), Num(5), Tuple(<<a_offset, a_caseless>>), Tuple(<<a_offset>>),
     Tuple(<<a_offset, Num(1), Num(2)>>), Tuple(<<Atom("foo"), Num(1)>>),
     Tuple(<<a_capture, Atom("foo"), a_index>>),
     Tuple(<<a_capture, List(<<>>), a_index>>),
     Tuple(<<a_capture, Num(5), a_index>>),
     Tuple(<<a_capture, a_all, Atom("foo")>>)}
\* option lists that exercise the grammar of the match options
MatchOptLists ==
    {List(e) : e \in SeqsWithOdd(MatchEntries, OddMatchEntries, MaxOpts)}
    \cup {Atom("foo")}
\* option lists of one capture entry, by value-spec and shape
CaptureOptLists(V) ==
    {List(<<Tuple(<<a_capture, v, t>>)>>) : v \in V, t \in {a_index, a_binary}}
ValueSpecs == {a_all, a_all_but_first, a_first, a_none,
               List(<<Atom("n")>>), List(<<Num(MaxGroups), Num(1)>>)}
EngineOptLists ==
    CaptureOptLists(ValueSpecs)
    \cup {List(<<Tuple(<<a_offset, Num(o)>>), Tuple(<<a_capture, a_all, a_index>>)>>) :
            o \in {1, -1}}

ReplaceEntries == {a_global}
OddReplaceEntries == {a_caseless, Tuple(<<a_global>>), Num(5)}
ReplaceOptLists ==
    {List(e) : e \in SeqsWithOdd(ReplaceEntries, OddReplaceEntries, MaxOpts)}
    \cup {Atom("foo")}
Replacements == {Bin(<<>>), Bin(<<7>>)}

\* which allocations of a call fail, when it makes at most n: none, one of
\* them, or all of them
FailSets(n) == {{}} \cup {{k} : k \in 1..n} \cup {1..n}

(* ------------------------------ the state ------------------------------ *)

\* the call in progress: op "none" between calls
Call(op, argv, answer, occ, fail) ==
    [op |-> op, argv |-> argv, answer |-> answer, occ |-> occ, fail |-> fail]
NoCall == Call("none", <<>>, NoMatch, {}, {})

\* A call on a handle that runs on a scheduler thread of its own, beside
\* others: at "idle" (no call), "resolved" (the call has read the handle's
\* pointer, lines 722-726 and 881-884) or "done"; re is the pointer it read.
Threads == 1..MaxThreads
Thread(at, op, argv, re, answer, occ, fail, ret) ==
    [at |-> at, op |-> op, argv |-> argv, re |-> re, answer |-> answer,
     occ |-> occ, fail |-> fail, ret |-> ret]
IdleThread == Thread("idle", "none", <<>>, NoRe, NoMatch, {}, {}, NoTerm)

Init ==
    /\ handles = [h \in HandleIds |-> NoHandle]
    /\ pc = "idle"
    /\ call = NoCall
    /\ result = NoTerm
    /\ obs = NoObs
    /\ threads = [t \in Threads |-> IdleThread]

LiveTerms == {Resource(h) : h \in {x \in HandleIds : handles[x].live}}

\* re2:compile/1,2
Compile ==
    /\ pc = "idle"
    /\ \E h \in HandleIds : \E p \in {FullPattern, Bin(BadPatternText), NotIolist} :
       \E argv \in {<<p>>} \cup {<<p, o>> : o \in CompileOptLists} :
       \E fail \in FailSets(re2_compile_impl(argv, h, {}).obs.allocs) :
         LET returns(r) ==
                 /\ ~handles[h].live
                 /\ handles' = [handles EXCEPT ![h] = r.handle]
                 /\ call' = Call("compile", argv, NoMatch, {}, fail)
                 /\ result' = r.ret
                 /\ obs' = r.obs
         IN returns(re2_compile_impl(argv, h, fail))
    /\ pc' = "done"
    /\ UNCHANGED threads

\* the options a match call parses, and the offset they give
match_opts(argv) ==
    IF Len(argv) = 3 THEN parse_match_options(argv[3], matchoptions).opts
    ELSE matchoptions

\* the answers of the engine a family of calls is run with
Answers(family, re, s, startpos) ==
    CASE family = "few" -> FewAnswers(re, s, startpos)
      [] family = "pinned" -> PinnedAnswers(re, s, startpos)
      [] OTHER -> EngineAnswers(re, s, startpos)

\* a re2:match/2,3 call with arguments argv, the engine answering one of
\* the answers of the family if the call reaches it
MatchCall(argv, family) ==
    LET returns(answer, fail, r) ==
            /\ call' = Call("match", argv,
                            IF r.obs.engine = "Match" THEN answer ELSE NoMatch,
                            {}, fail)
            /\ result' = r.ret
            /\ obs' = r.obs
            /\ pc' = "done"
            /\ UNCHANGED <<handles, threads>>
        \* dry: the call when the engine finds no match and no allocation fails
        answers(dry) == IF dry.obs.engine = "Match"
                        THEN Answers(family, dry.obs.re, iolist_bytes(argv[1]),
                                     match_opts(argv).offset)
                        ELSE {NoMatch}
    IN \E answer \in answers(re2_match_impl(argv, handles, NoMatch, {})) :
       \E fail \in FailSets(re2_match_impl(argv, handles, answer, {}).obs.allocs) :
         returns(answer, fail, re2_match_impl(argv, handles, answer, fail))

\* re2:match with every shape of options list
MatchOptions ==
    /\ pc = "idle"
    /\ \E s \in {Subject(MaxLen), NotIolist} :
       \E p \in LiveTerms \cup {FullPattern, Bin(BadPatternText), NotIolist} :
       \E argv \in {<<s, p>>} \cup {<<s, p, o>> : o \in MatchOptLists} :
         MatchCall(argv, "few")

\* re2:match with every pattern, subject and answer of the engine
MatchEngine ==
    /\ pc = "idle"
    /\ \E s \in Subjects :
       \E p \in LiveTerms \cup PatternTerms :
       \E o \in EngineOptLists :
         MatchCall(<<s, p, o>>, "every")

\* re2:match with every ValueList
MatchList ==
    /\ pc = "idle"
    /\ \E p \in LiveTerms \cup {Bin(PatternText(MaxGroups, k)) : k \in 0..MaxGroups} :
       \E o \in CaptureOptLists(RefLists) :
         MatchCall(<<Subject(MaxLen), p, o>>, "pinned")

\* re2:replace/3,4
Replace ==
    /\ pc = "idle"
    /\ \E s \in Subjects \cup {NotIolist} :
       \E p \in LiveTerms \cup {FullPattern, Bin(BadPatternText), NotIolist} :
       \E t \in Replacements \cup {NotIolist} :
       \E argv \in {<<s, p, t>>} \cup {<<s, p, t, o>> : o \in ReplaceOptLists} :
         LET returns(occ, fail, r) ==
                 /\ call' = Call("replace", argv, NoMatch,
                                 IF r.obs.engine /= "none" THEN occ ELSE {}, fail)
                 /\ result' = r.ret
                 /\ obs' = r.obs
             \* dry: the call when the engine finds nothing to replace
             occs(dry) == IF dry.obs.engine /= "none"
                          THEN SUBSET (1..Len(iolist_bytes(s))) ELSE {{}}
         IN \E occ \in occs(re2_replace_impl(argv, handles, {}, {})) :
            \E fail \in FailSets(re2_replace_impl(argv, handles, occ, {}).obs.allocs) :
              returns(occ, fail, re2_replace_impl(argv, handles, occ, fail))
    /\ pc' = "done"
    /\ UNCHANGED <<handles, threads>>

\* the NIF returns to its caller
Return ==
    /\ pc = "done"
    /\ pc' = "idle"
    /\ call' = NoCall
    /\ result' = NoTerm
    /\ obs' = NoObs
    /\ UNCHANGED <<handles, threads>>

\* re2_resource_cleanup: the runtime collects a handle no term refers to,
\* so no call in progress holds it
Cleanup ==
    LET destroyed(h, c) ==
            /\ handles' = [handles EXCEPT ![h] = Handle(FALSE, c.ptr)]
            /\ obs' = Obs(handles[h].re, 0, c.dtor, "none", -1, {}, 0)
            /\ call' = Call("cleanup", <<Resource(h)>>, NoMatch, {}, {})
            /\ result' = NoTerm
            /\ pc' = "done"
    IN /\ pc = "idle"
       /\ \A t \in Threads : threads[t].at = "idle"
       /\ \E h \in HandleIds :
            /\ handles[h].live
            /\ destroyed(h, re2_resource_cleanup(handles[h].re))
       /\ UNCHANGED threads

Next == Compile \/ MatchOptions \/ MatchEngine \/ MatchList \/ Replace
          \/ Return \/ Cleanup

Spec == Init /\ [][Next]_vars

(* ------------------------ calls side by side --------------------------- *)

\* the calls the threads make on handle h
ThreadOptLists ==
    {List(<<Tuple(<<a_capture, a_all, a_index>>)>>),
     List(<<Tuple(<<a_capture, List(<<Atom("n")>>), a_binary>>)>>),
     List(<<a_caseless>>)}
ThreadCalls(h) ==
    {[op |-> "match", argv |-> <<Subject(1), Resource(h)>>]}
    \cup {[op |-> "match", argv |-> <<Subject(1), Resource(h), o>>] :
            o \in ThreadOptLists}
    \cup {[op |-> "replace", argv |-> <<Subject(1), Resource(h), Bin(<<7>>)>>],
          [op |-> "replace", argv |-> <<Subject(1), Resource(h), Bin(<<7>>),
                                        List(<<a_global>>)>>]}
\* which allocations of a thread's call fail, when it makes at most n: none
\* of them or all of them
ThreadFailSets(n) == {{}, 1..n}

\* a fault to test C12 against: the call hands the handle's object to its
\* re_unique_ptr, which destroys it when the call returns
handle_after_call_owned(handle) == Handle(handle.live, NoRe)
\* what a match or replace call leaves of the handle it was given: the call
\* copies the pointer ("Save existing RE2 obj for use in this function") and
\* writes nothing
handle_after_call(handle) == handle

\* a thread starts a call on a handle it was given and reads its pointer
Enter(t) ==
    /\ pc = "idle"
    /\ threads[t].at = "idle"
    /\ \E h \in HandleIds :
         /\ handles[h].live
         /\ \E c \in ThreadCalls(h) :
              threads' = [threads EXCEPT ![t] =
                            Thread("resolved", c.op, c.argv, handles[h].re,
                                   NoMatch, {}, {}, NoTerm)]
    /\ UNCHANGED <<handles, pc, call, result, obs>>

\* the handles as thread t saw them when it read the pointer
HandlesOf(t) ==
    [handles EXCEPT ![threads[t].argv[2].n] =
       Handle(handles[threads[t].argv[2].n].live, threads[t].re)]

\* the rest of the call of thread t, run on the pointer it read
Finish(t) ==
    LET returns(th, answer, occ, fail, r) ==
            /\ threads' = [threads EXCEPT ![t] =
                             Thread("done", th.op, th.argv, th.re,
                                    IF r.obs.engine = "Match" THEN answer ELSE NoMatch,
                                    IF r.obs.engine \in {"Replace", "GlobalReplace"}
                                    THEN occ ELSE {},
                                    fail, r.ret)]
            /\ handles' = [handles EXCEPT ![th.argv[2].n] =
                             handle_after_call(handles[th.argv[2].n])]
        match(th, hs) ==
            \E answer \in FewAnswers(th.re, iolist_bytes(th.argv[1]),
                                      match_opts(th.argv).offset) :
            \E fail \in ThreadFailSets(re2_match_impl(th.argv, hs, answer, {}).obs.allocs) :
              returns(th, answer, {}, fail, re2_match_impl(th.argv, hs, answer, fail))
        replace(th, hs) ==
            \E occ \in SUBSET (1..Len(iolist_bytes(th.argv[1]))) :
            \E fail \in ThreadFailSets(re2_replace_impl(th.argv, hs, occ, {}).obs.allocs) :
              returns(th, {}, occ, fail, re2_replace_impl(th.argv, hs, occ, fail))
    IN /\ threads[t].at = "resolved"
       /\ IF threads[t].op = "match" THEN match(threads[t], HandlesOf(t))
          ELSE replace(threads[t], HandlesOf(t))
       /\ UNCHANGED <<pc, call, result, obs>>

\* the call of thread t returns to its caller
Leave(t) ==
    /\ threads[t].at = "done"
    /\ threads' = [threads EXCEPT ![t] = IdleThread]
    /\ UNCHANGED <<handles, pc, call, result, obs>>

ConcNext == Compile \/ Return \/ Cleanup
              \/ (\E t \in Threads : Enter(t))
              \/ (\E t \in Threads : Finish(t))
              \/ (\E t \in Threads : Leave(t))

ConcSpec == Init /\ [][ConcNext]_vars

(* ------------------------------ the claims ----------------------------- *)

\* a call has run and has not yet returned
MatchDone == pc = "done" /\ call.op = "match"
CompileDone == pc = "done" /\ call.op = "compile"
ReplaceDone == pc = "done" /\ call.op = "replace"
\* the entries of the options list that is argument k of the call
Entries(k) == IF Len(call.argv) = k THEN list_cells(call.argv[k]) ELSE <<>>
HasEntry(k, e) == \E i \in 1..Len(Entries(k)) : Entries(k)[i] = e
ByHandle == call.argv[2].k = "resource"
\* the call reached the engine and the engine found a match
EngineMatched == obs.engine = "Match" /\ result /= a_nomatch
\* the result is {match, List}
IsMatched(t) == /\ t.k = "tuple" /\ Len(t.e) = 2 /\ t.e[1] = a_match
                /\ t.e[2].k = "list"
\* the value of a group that did not take part in the match
Placeholder(ct) == IF ct = "CT_BINARY" THEN Bin(<<>>)
                   ELSE Tuple(<<Num(-1), Num(0)>>)

\* C1: a match call on a precompiled handle whose options list holds the
\* bare entry caseless, at any position, returns badarg and never invokes
\* the engine; with an inline pattern the same list is accepted: the pattern
\* is compiled case-insensitively, and the call is badarg only when the
\* pattern itself does not compile.
C1_CaselessWithHandle ==
    (/\ MatchDone
     /\ enif_inspect_iolist_as_binary(call.argv[1])
     /\ HasEntry(3, a_caseless))
    => IF ByHandle
       THEN result = Badarg /\ obs.engine = "none" /\ obs.ctor = 0
       ELSE (/\ parse_match_options(call.argv[3], matchoptions).ok
             /\ enif_inspect_iolist_as_binary(call.argv[2])
             /\ 1 \notin call.fail)
            => /\ obs.ctor = 1
               /\ obs.re.src = iolist_bytes(call.argv[2])
               /\ ~obs.re.case_sensitive
               /\ (result = Badarg) = ~re_ok(obs.re)
               /\ re_ok(obs.re) => obs.engine = "Match"
\* a handle and a two-entry list whose second entry is caseless
C1_Witness ==
    /\ MatchDone /\ ByHandle /\ result = Badarg
    /\ Len(Entries(3)) = 2
    /\ Entries(3)[1] = Tuple(<<a_capture, a_first, a_index>>)
    /\ Entries(3)[2] = a_caseless

\* an entry the grammar of the match options does not have: an unknown bare
\* atom, a tuple with an unknown tag, a tuple of the wrong arity for its tag,
\* an offset that is no integer
MalformedMatchEntry(e) ==
    \/ e.k = "atom" /\ e /= a_caseless
    \/ /\ e.k = "tuple"
       /\ \/ Len(e.e) = 0
          \/ e.e[1] \notin {a_offset, a_capture}
          \/ e.e[1] = a_offset /\ Len(e.e) /= 2
          \/ e.e[1] = a_capture /\ Len(e.e) \notin {2, 3}
          \/ e.e[1] = a_offset /\ e.e[2].k /= "int"
\* the same for the compile options
MalformedCompileEntry(e) ==
    \/ e.k = "atom" /\ e /= a_caseless
    \/ /\ e.k = "tuple"
       /\ \/ Len(e.e) = 0
          \/ e.e[1] /= a_max_mem
          \/ Len(e.e) /= 2
          \/ e.e[2].k /= "int"

\* C2: in the compile options and in the match options, a list with a
\* malformed entry (unknown bare atom, tuple with an unknown tag, tuple of the
\* wrong arity for its tag, payload of the wrong type) makes the whole call
\* badarg: the entry is not skipped, nothing is compiled and the engine is not
\* invoked.  (Stated for calls in which no allocation fails.)
C2_MalformedEntryIsBadarg ==
    /\ (/\ MatchDone /\ call.fail = {}
        /\ enif_inspect_iolist_as_binary(call.argv[1])
        /\ \E i \in 1..Len(Entries(3)) : MalformedMatchEntry(Entries(3)[i]))
       => result = Badarg /\ obs.engine = "none"
    /\ (/\ CompileDone /\ call.fail = {}
        /\ enif_inspect_iolist_as_binary(call.argv[1])
        /\ iolist_bytes(call.argv[1]) \in ValidPatternTexts
        /\ \E i \in 1..Len(Entries(2)) : MalformedCompileEntry(Entries(2)[i]))
       => result = Badarg /\ obs.ctor = 0

\* the references of the ValueList of a match call, its capture type and the
\* groups of its pattern
Refs_(argv) == list_cells(match_opts(argv).vlist)
IsListCall == /\ MatchDone /\ Len(call.argv) = 3
              /\ parse_match_options(call.argv[3], matchoptions).ok
              /\ match_opts(call.argv).vs = "VS_VLIST"
\* a reference that is a number outside 1..G, or a name no group has
OutOfRange(ref, re) ==
    \/ ref.k = "bignum"
    \/ ref.k = "int" /\ (ref.n < 1 \/ ref.n > NumberOfCapturingGroups(re))
    \/ atom_latin1(ref) /\ ~nmap_has(NamedCapturingGroups(re), c_str(atom_text(ref)))
    \/ /\ IsString(ref)
       /\ ~nmap_has(NamedCapturingGroups(re), c_str(iolist_bytes(ref)))
\* a reference the ValueList may hold: a number or a name
IsRef(ref) == ref.k \in {"int", "bignum"} \/ atom_latin1(ref) \/ IsString(ref)

\* C3: when the engine matched and the value-spec is a ValueList of numbers
\* and names, the call returns {match, List} with one value per reference,
\* and every number outside 1..G (0 and the negative ones too) and every
\* name of no group gives the placeholder of the capture type at its place:
\* {-1, 0} or the empty binary.  (Stated for calls in which no allocation
\* fails.)
C3_OutOfRangeIsPlaceholder ==
    (/\ IsListCall /\ EngineMatched /\ call.fail = {}
     /\ \A i \in 1..Len(Refs_(call.argv)) : IsRef(Refs_(call.argv)[i]))
    => /\ IsMatched(result)
       /\ Len(result.e[2].e) = Len(Refs_(call.argv))
       /\ \A i \in 1..Len(Refs_(call.argv)) :
            OutOfRange(Refs_(call.argv)[i], obs.re)
            => result.e[2].e[i] = Placeholder(match_opts(call.argv).ct)

\* C4: a match call never returns a matched result that holds the marker
\* of a failed allocation in place of a capture value: when the allocation
\* for a capture value fails, the call returns the allocation-failure error
\* and nothing else.
C4_NoMarkerInResult ==
    (MatchDone /\ IsMatched(result))
    => \A i \in 1..Len(result.e[2].e) :
         result.e[2].e[i] /= a_err_enif_alloc_binary

\* C5: for a pattern with G groups the engine is asked for 0 slots when the
\* value-spec is none, 1 when it is first, G + 1 when it is all,
\* all_but_first or a ValueList; every slot read while shaping the result
\* is one of the slots asked for; and when no allocation fails the slots
\* read are slot 0 for first, 0..G for all and 1..G for all_but_first.
C5_SlotsAskedAndRead ==
    (MatchDone /\ obs.engine = "Match")
    => LET vs == match_opts(call.argv).vs
           G == NumberOfCapturingGroups(obs.re)
       IN /\ obs.n = (CASE vs = "VS_NONE" -> 0
                        [] vs = "VS_FIRST" -> 1
                        [] OTHER -> G + 1)
          /\ obs.reads \subseteq 0..(obs.n - 1)
          /\ (EngineMatched /\ call.fail = {})
             => obs.reads = (CASE vs = "VS_NONE" -> {}
                               [] vs = "VS_FIRST" -> {0}
                               [] vs = "VS_ALL" -> 0..G
                               [] vs = "VS_ALL_BUT_FIRST" -> 1..G
                               [] OTHER -> obs.reads)
\* a ValueList that reads the last group and the first
C5_Witness ==
    /\ MatchDone /\ EngineMatched
    /\ match_opts(call.argv).vs = "VS_VLIST"
    /\ obs.n = MaxGroups + 1
    /\ obs.reads = {1, MaxGroups}

\* the result of the call in progress had its options ended with entry e
WithEntry(e) ==
    re2_match_impl(<<call.argv[1], call.argv[2], List(Append(Entries(3), e))>>,
                   handles, call.answer, {}).ret

\* C6: when the engine matched and no allocation fails, the sequence of
\* all is the sequence of first (one element, the whole match) followed by
\* the sequence of all_but_first (G elements, the groups in order), for the
\* same subject, pattern, offset and capture type; with G = 0 the result of
\* all_but_first is matched with the empty sequence.
C6_AllIsFirstThenRest ==
    (/\ MatchDone /\ EngineMatched /\ call.fail = {}
     /\ match_opts(call.argv).vs = "VS_ALL")
    => LET first == WithEntry(Tuple(<<a_capture, a_first>>))
           rest == WithEntry(Tuple(<<a_capture, a_all_but_first>>))
       IN /\ IsMatched(result) /\ IsMatched(first) /\ IsMatched(rest)
          /\ Len(first.e[2].e) = 1
          /\ Len(rest.e[2].e) = NumberOfCapturingGroups(obs.re)
          /\ result.e[2].e = first.e[2].e \o rest.e[2].e
\* all on a handle with every group, at offset 1
C6_Witness ==
    /\ MatchDone /\ EngineMatched /\ ByHandle /\ call.fail = {}
    /\ match_opts(call.argv).vs = "VS_ALL"
    /\ match_opts(call.argv).offset = 1
    /\ Len(result.e[2].e) = MaxGroups + 1

\* a reference that names the named group of the pattern
IsNameOf(ref, re) ==
    \/ atom_latin1(ref) /\ nmap_has(NamedCapturingGroups(re), c_str(atom_text(ref)))
    \/ IsString(ref) /\ nmap_has(NamedCapturingGroups(re), c_str(iolist_bytes(ref)))
\* the ValueList with every name of a group replaced by the group's number
Numbered(refs, re) ==
    [i \in 1..Len(refs) |->
       IF IsNameOf(refs[i], re)
       THEN Num(nmap_at(NamedCapturingGroups(re),
                        IF refs[i].k = "atom" THEN c_str(atom_text(refs[i]))
                        ELSE c_str(iolist_bytes(refs[i]))))
       ELSE refs[i]]

\* C7: when the pattern's named group has number k, a ValueList that refers
\* to the group by name (as an atom or as a string) gives the result of the
\* same ValueList with the number k in its place, for both capture types,
\* also when the group took no part in the match or matched the empty
\* string.  (Stated for calls in which no allocation fails.)
C7_NameIsNumber ==
    (/\ IsListCall /\ obs.engine = "Match" /\ call.fail = {}
     /\ \E i \in 1..Len(Refs_(call.argv)) : IsNameOf(Refs_(call.argv)[i], obs.re))
    => result = WithEntry(Tuple(<<a_capture,
                                  List(Numbered(Refs_(call.argv), obs.re))>>))
\* the group named n is group 2 and matched the empty string
C7_Witness ==
    /\ IsListCall /\ IsMatched(result) /\ call.fail = {}
    /\ obs.re.src = PatternText(MaxGroups, 2)
    /\ Refs_(call.argv) = <<Atom("n")>>
    /\ match_opts(call.argv).ct = "CT_INDEX"
    /\ call.answer.slots[3] = Piece(0, 0)

\* C8: a matched result of a ValueList whose references all resolve (no
\* allocation fails) has one element per reference, and element i is the
\* value that reference i gives alone: the order is the order of the
\* references, repeated references are repeated.
C8_ListFollowsReferences ==
    (IsListCall /\ IsMatched(result) /\ call.fail = {})
    => /\ Len(result.e[2].e) = Len(Refs_(call.argv))
       /\ \A i \in 1..Len(Refs_(call.argv)) :
            WithEntry(Tuple(<<a_capture, List(<<Refs_(call.argv)[i]>>)>>))
              = Tuple(<<a_match, List(<<result.e[2].e[i]>>)>>)
\* [2, 1] gives the second group before the first
C8_Witness ==
    /\ IsListCall /\ call.fail = {}
    /\ Refs_(call.argv) = <<Num(2), Num(1)>>
    /\ result = Tuple(<<a_match, List(<<Bin(<<2>>), Bin(<<1>>)>>)>>)

\* the pattern argument is a live handle or the text of a pattern that
\* compiles
ValidPattern ==
    \/ ByHandle /\ handles[call.argv[2].n].live
    \/ /\ enif_inspect_iolist_as_binary(call.argv[2])
       /\ iolist_bytes(call.argv[2]) \in ValidPatternTexts
\* a match call with valid arguments
ValidMatchCall ==
    /\ MatchDone
    /\ enif_inspect_iolist_as_binary(call.argv[1])
    /\ ValidPattern
    /\ Len(call.argv) = 3 => parse_match_options(call.argv[3], matchoptions).ok
    /\ ~(ByHandle /\ match_opts(call.argv).caseless)
\* the engine was asked and reported no match
EngineNoMatch ==
    /\ MatchDone /\ obs.engine = "Match"
    /\ ~RE2_Match(iolist_bytes(call.argv[1]), match_opts(call.argv).offset,
                  Len(iolist_bytes(call.argv[1])), obs.n, call.answer).matched

\* C9 as claimed: with the value-spec none a match call with valid arguments
\* returns the bare match or the bare nomatch and nothing else; and for every
\* value-spec the result is the bare nomatch when the engine reports no match.
C9_NoneIsBareClaim ==
    /\ (ValidMatchCall /\ match_opts(call.argv).vs = "VS_NONE")
       => result \in {a_match, a_nomatch}
    /\ EngineNoMatch => result = a_nomatch

\* C9, amended: with the value-spec none a match call with valid arguments
\* returns the bare match or the bare nomatch, reads no slot and allocates
\* nothing for the result, whatever the capture type; the one other result
\* is {error, enif_alloc}, for an inline pattern whose RE2 object cannot be
\* allocated, before the engine is asked.  For every value-spec the result
\* is the bare nomatch when the engine reports no match.
C9_NoneIsBare ==
    /\ (ValidMatchCall /\ match_opts(call.argv).vs = "VS_NONE")
       => IF ~ByHandle /\ 1 \in call.fail
          THEN result = error(a_err_enif_alloc) /\ obs.engine = "none"
          ELSE /\ obs.engine = "Match"
               /\ result = (IF EngineNoMatch THEN a_nomatch ELSE a_match)
               /\ obs.reads = {}
               /\ obs.allocs = (IF ByHandle THEN 0 ELSE 1)
    /\ EngineNoMatch => result = a_nomatch
\* none with the capture type binary, on a pattern that matched
C9_Witness ==
    /\ ValidMatchCall /\ result = a_match
    /\ match_opts(call.argv).vs = "VS_NONE"
    /\ match_opts(call.argv).ct = "CT_BINARY"
    /\ obs.re.src = PatternText(MaxGroups, MaxGroups)

\* a replace call with valid subject, pattern and replacement, and a list
\* of options if it has options
ValidReplaceCall ==
    /\ ReplaceDone
    /\ enif_inspect_iolist_as_binary(call.argv[1])
    /\ enif_inspect_iolist_as_binary(call.argv[3])
    /\ ValidPattern
    /\ Len(call.argv) = 4 => call.argv[4].k = "list"
\* the text after the engine replaced what it found: every occurrence when
\* global, the first one otherwise
Replaced(global) ==
    Substitute(iolist_bytes(call.argv[1]), 1,
               IF global \/ call.occ = {} THEN call.occ ELSE {Min(call.occ)},
               iolist_bytes(call.argv[3]))

\* C10 as claimed: in a replace call with a valid pattern, an options list
\* with an entry other than the bare global is badarg; otherwise the engine
\* replaces every occurrence exactly when global is in the list, the result
\* is the text after the replacement exactly when the engine replaced
\* something, and the bare error when it replaced nothing.
C10_ReplaceOptionsClaim ==
    ValidReplaceCall
    => IF \E i \in 1..Len(Entries(4)) : Entries(4)[i] /= a_global
       THEN result = Badarg /\ obs.engine = "none"
       ELSE /\ obs.engine = (IF HasEntry(4, a_global) THEN "GlobalReplace"
                              ELSE "Replace")
            /\ result = (IF call.occ = {} THEN a_error
                          ELSE Bin(Replaced(HasEntry(4, a_global))))

\* C10, amended: as claimed when no allocation fails.  For an inline
\* pattern whose RE2 object cannot be allocated the result is
\* {error, enif_alloc}, before the options are read and the engine is asked;
\* and when the engine replaced something and the binary of the result
\* cannot be allocated the result is {error, enif_alloc_binary}.
C10_ReplaceOptions ==
    ValidReplaceCall
    => IF ~ByHandle /\ 1 \in call.fail
       THEN result = error(a_err_enif_alloc) /\ obs.engine = "none"
       ELSE IF \E i \in 1..Len(Entries(4)) : Entries(4)[i] /= a_global
       THEN result = Badarg /\ obs.engine = "none"
       ELSE /\ obs.engine = (IF HasEntry(4, a_global) THEN "GlobalReplace"
                              ELSE "Replace")
            /\ result = (IF call.occ = {} THEN a_error
                          ELSE IF (IF ByHandle THEN 1 ELSE 2) \in call.fail
                          THEN error(a_err_enif_alloc_binary)
                          ELSE Bin(Replaced(HasEntry(4, a_global))))
\* global on a handle, two occurrences replaced
C10_Witness ==
    /\ ValidReplaceCall /\ ByHandle /\ call.fail = {}
    /\ Entries(4) = <<a_global>>
    /\ call.occ = {1, 2}
    /\ result = Bin(<<7, 7>>)

CleanupDone == pc = "done" /\ call.op = "cleanup"
\* the call returned a handle
ReturnedHandle == /\ result.k = "tuple" /\ Len(result.e) = 2
                  /\ result.e[1] = a_ok /\ result.e[2].k = "resource"

\* C11: every RE2 object a call constructs is destroyed exactly once.  A
\* match or replace call constructs at most one object, only for an inline
\* pattern, and has destroyed it exactly once when it returns, whatever it
\* returns; on a handle it constructs and destroys nothing.  A compile call
\* that returns a handle has constructed one object and not destroyed it: the
\* resource holds it, non-null and ok.  A compile call that returns anything
\* else has destroyed what it constructed exactly once (the explicit cleanup
\* and the resource destructor together) and leaves no resource.  The
\* destructor of a collected handle destroys its object exactly once and
\* leaves the pointer null.  Every live resource holds a non-null ok object,
\* and the engine is only ever asked on an ok object.
C11_DestroyedOnce ==
    /\ (MatchDone \/ ReplaceDone) =>
         /\ obs.ctor \in {0, 1}
         /\ obs.dtor = obs.ctor
         /\ (ByHandle /\ handles[call.argv[2].n].live) => obs.ctor = 0
         /\ (~ByHandle /\ obs.re /= NoRe) => obs.ctor = 1
    /\ CompileDone =>
         IF ReturnedHandle
         THEN /\ obs.ctor = 1 /\ obs.dtor = 0
              /\ handles[result.e[2].n] = Handle(TRUE, obs.re)
         ELSE /\ obs.ctor \in {0, 1}
              /\ obs.dtor = obs.ctor
              /\ obs.re /= NoRe => obs.ctor = 1
              /\ \A h \in HandleIds : handles[h] = NoHandle
    /\ CleanupDone =>
         /\ obs.ctor = 0 /\ obs.dtor = 1
         /\ handles[call.argv[1].n] = NoHandle
    /\ \A h \in HandleIds : handles[h].live => re_ok(handles[h].re)
    /\ obs.engine /= "none" => re_ok(obs.re)
\* a compile call whose pattern the engine rejects: the object was
\* constructed, then destroyed once by the cleanup and the release together
C11_Witness ==
    /\ CompileDone
    /\ obs.re /= NoRe /\ ~re_ok(obs.re)
    /\ obs.ctor = 1 /\ obs.dtor = 1
    /\ result.k = "tuple" /\ result.e[1] = a_error

\* the call of thread t run alone, on the handles as they are
Alone(t) ==
    IF threads[t].op = "match"
    THEN re2_match_impl(threads[t].argv, handles, threads[t].answer, threads[t].fail)
    ELSE re2_replace_impl(threads[t].argv, handles, threads[t].occ, threads[t].fail)

\* C12: with match and replace calls in progress side by side on one
\* compiled handle, in any interleaving, the handle every call in progress
\* was given is still live and still holds the ok object whose pointer the
\* call read (no call has written it), and the result of every finished call
\* is the result of that call run alone on the handle.
C12_CallsSideBySide ==
    \A t \in Threads :
      threads[t].at /= "idle" =>
        /\ handles[threads[t].argv[2].n].live
        /\ re_ok(handles[threads[t].argv[2].n].re)
        /\ handles[threads[t].argv[2].n].re = threads[t].re
        /\ threads[t].at = "done" => threads[t].ret = Alone(t).ret
\* a match and a replace finished side by side on the same handle, both
\* with a result of the engine
C12_Witness ==
    \E t \in Threads : \E u \in Threads :
      /\ threads[t].at = "done" /\ threads[t].op = "match"
      /\ IsMatched(threads[t].ret)
      /\ threads[u].at = "done" /\ threads[u].op = "replace"
      /\ threads[u].occ /= {} /\ threads[u].ret.k = "bin"
      /\ threads[t].argv[2] = threads[u].argv[2]

\* the parse of the first k entries of the options list of the match call
ParsedUpTo(k) ==
    parse_match_options(List(SubSeq(Entries(3), 1, k)), matchoptions)

\* C13: in the options list of a match call, an entry {capture, ValueSpec,
\* Shape} whose ValueSpec is neither all, all_but_first, first, none nor a
\* non-empty list leaves the value-spec and the capture type as the entries
\* before it set them.  (Stated for calls with valid arguments.)
C13_OddValueSpecIgnoresShape ==
    (ValidMatchCall /\ Len(call.argv) = 3) =>
      \A i \in 1..Len(Entries(3)) :
        ( /\ Entries(3)[i].k = "tuple" /\ Len(Entries(3)[i].e) = 3
          /\ Entries(3)[i].e[1] = a_capture
          /\ Entries(3)[i].e[2] \notin {a_all, a_all_but_first, a_first, a_none}
          /\ ~(Entries(3)[i].e[2].k = "list" /\ Entries(3)[i].e[2].e /= <<>>)
          /\ ParsedUpTo(i - 1).ok )
        => /\ ParsedUpTo(i).opts.vs = ParsedUpTo(i - 1).opts.vs
           /\ ParsedUpTo(i).opts.ct = ParsedUpTo(i - 1).opts.ct

\* C14: when the options list of a match call parses, its value-spec and
\* capture type are the ones that one of its capture entries gives by itself
\* (the capture type binary when that entry has no Shape), or the defaults
\* when the list has no capture entry.  (Stated for calls with valid
\* arguments whose entries are all well-formed and whose value-spec is not
\* none, so that the capture type shows in the result.)
C14_ValueSpecAndShapeOfOneEntry ==
    (ValidMatchCall /\ Len(call.argv) = 3
       /\ (\A i \in 1..Len(Entries(3)) : Entries(3)[i] \in MatchEntries)
       /\ match_opts(call.argv).vs /= "VS_NONE") =>
      LET one(f, e) ==
              /\ e.k = "tuple" /\ Len(e.e) \in {2, 3} /\ e.e[1] = a_capture
              /\ parse_match_options(List(<<e>>), matchoptions).opts.vs = f.vs
              /\ parse_match_options(List(<<e>>), matchoptions).opts.ct = f.ct
              /\ f.vs = "VS_VLIST" =>
                   parse_match_options(List(<<e>>), matchoptions).opts.vlist = f.vlist
          final(f) ==
              \/ \E i \in 1..Len(Entries(3)) : one(f, Entries(3)[i])
              \/ /\ \A i \in 1..Len(Entries(3)) :
                      ~(/\ Entries(3)[i].k = "tuple"
                        /\ Len(Entries(3)[i].e) \in {2, 3}
                        /\ Entries(3)[i].e[1] = a_capture)
                 /\ f.vs = matchoptions.vs /\ f.ct = matchoptions.ct
      IN final(ParsedUpTo(Len(Entries(3))).opts)

\* C15: when the engine matched and the value-spec is a ValueList, a call
\* whose allocations all succeed and whose list holds a reference that is no
\* number, no decodable atom and no decodable string returns {error, Tag}
\* with Tag none of the allocation-failure tags; and a call returns an
\* allocation-failure tag only if one of the allocations it made failed.
C15_UndecodableIsItsOwnError ==
    (IsListCall /\ obs.engine = "Match" /\ call.answer.matched) =>
      /\ (call.fail = {} /\ \E i \in 1..Len(Refs_(call.argv)) :
                               ~IsRef(Refs_(call.argv)[i]))
         => /\ result.k = "tuple" /\ Len(result.e) = 2 /\ result.e[1] = a_error
            /\ result.e[2] \notin {a_err_enif_alloc, a_err_enif_alloc_binary,
                                   a_err_enif_alloc_resource}
      /\ result \in {error(a_err_enif_alloc), error(a_err_enif_alloc_binary),
                     error(a_err_enif_alloc_resource)}
         => \E k \in call.fail : k <= obs.allocs

\* C16: when a match call returns {match, List} and the capture type is
\* index, every element of List is {-1, 0} or a pair {l, r} with r > 0,
\* 0 =< l and l + r no more than the length of the subject; for all,
\* all_but_first and first the k-th element is {-1, 0} exactly when the slot
\* it shapes is empty (the null piece as well as an empty piece inside the
\* match) and is otherwise the slot's distance from the first byte of the
\* subject and its size, so that l is never before a non-negative offset.
C16_IndexPairs ==
    (MatchDone /\ IsMatched(result) /\ match_opts(call.argv).ct = "CT_INDEX") =>
      LET pair(p, len, offset) ==
              /\ p.k = "tuple" /\ Len(p.e) = 2
              /\ p.e[1].k = "int" /\ p.e[2].k = "int"
              /\ \/ p = Tuple(<<Num(-1), Num(0)>>)
                 \/ /\ p.e[2].n > 0 /\ p.e[1].n >= 0
                    /\ p.e[1].n + p.e[2].n <= len
                    /\ p.e[1].n >= offset
          slot(p, piece) ==
              IF piece.size = 0 THEN p = Tuple(<<Num(-1), Num(0)>>)
              ELSE p = Tuple(<<Num(piece.data), Num(piece.size)>>)
          shaped(list, opts) ==
              /\ \A k \in 1..Len(list) :
                   pair(list[k], Len(iolist_bytes(call.argv[1])), opts.offset)
              /\ opts.vs /= "VS_VLIST" =>
                   \A k \in 1..Len(list) :
                     slot(list[k], call.answer.slots[first_slot(opts.vs) + k])
      IN shaped(result.e[2].e, match_opts(call.argv))
\* with offset 1 the whole match is reported at {1, 1}, counted from the
\* start of the subject, and a group that matched the empty text at 1 is
\* reported as {-1, 0}
C16_Witness ==
    /\ MatchDone /\ IsMatched(result)
    /\ match_opts(call.argv).ct = "CT_INDEX"
    /\ match_opts(call.argv).offset = 1
    /\ Len(result.e[2].e) >= 2
    /\ result.e[2].e[1] = Tuple(<<Num(1), Num(1)>>)
    /\ call.answer.slots[2] = Piece(1, 0)
    /\ result.e[2].e[2] = Tuple(<<Num(-1), Num(0)>>)

====
